---- MODULE Spec2Model ----
(***************************************************************************)
(* A model of tech-writer.py: configuration loading (load_config), the     *)
(* service and model checks (check_ollama_status, check_model_status), the *)
(* page render (front_end) and the streaming query (query_ollama).         *)
(*                                                                         *)
(* Python values are modelled as follows.  Strings are TLA+ strings; None  *)
(* is the string None below; a key that a mapping does not hold is NoKey;  *)
(* an environment variable that is not set is Unset.  A parsed YAML        *)
(* document is a record [kind, host, model, messages].                     *)
(*                                                                         *)
(* Line 184 of the source reads "else" without its colon.  The model reads *)
(* it as "else:", the branch that only logs a warning.                     *)
(***************************************************************************)
EXTENDS Integers, Sequences, FiniteSets, TLC

VARIABLES
    pc,                 \* position of the script
    filepath_list,      \* load_yaml_file: the candidate paths still to open
    yaml_config,        \* load_yaml_file: the document loaded last
    config,             \* the configuration dict (host, model, system)
    env,                \* the environment variables read by load_env
    first_parsed,       \* history: the document of the first candidate that parsed
    any_found,          \* history: some candidate file existed
    file_config,        \* history: config as load_yaml_file returned it
    probe,              \* history: outcome of ollama.ps() in this render
    ollama_disabled_state, \* front_end: the disabled flag
    st_error_msg,       \* front_end: the error message
    requested,          \* history: argument of check_model_status
    response,           \* history: what ollama.list() answered
    model_checked,      \* history: check_model_status was invoked in this render
    text,               \* front_end: content of the text area
    banner,             \* front_end: the status banner drawn
    errors,             \* the st.error() calls of this render, in order
    chat_call,          \* history: arguments of ollama.chat(), or NoCall
    received,           \* history: the parts the chat stream yielded, in order
    stream_outcome,     \* history: "open", "exhausted" or "error"
    accumulated_text,   \* query_ollama: accumulated_text
    token_count,        \* query_ollama: token_count
    displayed,          \* the output_placeholder.markdown() calls, in order
    query_result        \* what the caller of query_ollama gets back

vars == <<pc, filepath_list, yaml_config, config, env, first_parsed, any_found,
          file_config, probe, ollama_disabled_state, st_error_msg, requested,
          response, model_checked, text, banner, errors, chat_call, received,
          stream_outcome, accumulated_text, token_count, displayed, query_result>>

config_vars == <<filepath_list, yaml_config, env, first_parsed, any_found, file_config>>
render_vars == <<probe, ollama_disabled_state, st_error_msg, requested, response,
                 model_checked, text, banner, errors>>
query_vars  == <<chat_call, received, stream_outcome, accumulated_text, token_count,
                 displayed, query_result>>

-----------------------------------------------------------------------------
(* Bounds of the model. *)

MaxPaths == 2       \* candidate paths given to load_config (the script gives 2)
MaxCatalog == 2     \* entries in the answer of ollama.list()
MaxFrags == 3       \* parts yielded by one chat stream

-----------------------------------------------------------------------------
(* Python values. *)

None  == "<None>"
NoKey == "<no key>"
Unset == "<unset>"

\* Python truthiness of a string-or-None value.
Truthy(v) == v \notin {None, NoKey, ""}

DefaultHost   == "localhost:11434"
DefaultModel  == "llama3.2:1b"
\* DefaultSystem stands for the whole prompt of lines 24-25.
DefaultSystem == "You are an advanced model trained to identify and correct ..."

set_defaults == [host |-> DefaultHost, model |-> DefaultModel, system |-> DefaultSystem]

-----------------------------------------------------------------------------
(* The candidate files. *)

FileHost   == "filehost:11434"
FileModel  == "mistral"
FilePrompt == "Rewrite the text."

\* The value of the "messages" key: absent, a non-list, or a list of which
\* only the length and the first entry matter.
NoFirst == [is_mapping |-> FALSE, role |-> NoKey, content |-> NoKey]
Entry(role, content) == [is_mapping |-> TRUE, role |-> role, content |-> content]

MessagesValues ==
    { [kind |-> "nokey",  len |-> 0, first |-> NoFirst],
      [kind |-> "scalar", len |-> 0, first |-> NoFirst],     \* messages: "text"
      [kind |-> "list",   len |-> 0, first |-> NoFirst],     \* messages: []
      [kind |-> "list",   len |-> 1, first |-> NoFirst],     \* messages: ["text"]
      [kind |-> "list",   len |-> 1, first |-> Entry("system", FilePrompt)],
      [kind |-> "list",   len |-> 1, first |-> Entry("system", "")],
      [kind |-> "list",   len |-> 1, first |-> Entry("user", FilePrompt)] }

NoMessages == [kind |-> "nokey", len |-> 0, first |-> NoFirst]

\* What yaml.safe_load can return: a false value ("null": an empty file, [],
\* 0, ""), a true value that is not a mapping ("scalar": a list, a string), or
\* a mapping.
EmptyMapping == [kind |-> "mapping", host |-> NoKey, model |-> NoKey, messages |-> NoMessages]
NullDoc      == [kind |-> "null",    host |-> NoKey, model |-> NoKey, messages |-> NoMessages]
ScalarDoc    == [kind |-> "scalar",  host |-> NoKey, model |-> NoKey, messages |-> NoMessages]

Mappings == [kind : {"mapping"},
             host : {NoKey, None, "", FileHost},
             model : {NoKey, None, "", FileModel},
             messages : MessagesValues]

Documents == Mappings \cup {NullDoc, ScalarDoc}

\* A candidate file at the time it is opened.
FileStates == { [state |-> s, doc |-> NullDoc] : s \in {"missing", "unreadable", "malformed"} }
              \cup { [state |-> "ok", doc |-> d] : d \in Documents }

NoDoc == [kind |-> "none", host |-> NoKey, model |-> NoKey, messages |-> NoMessages]

\* lines 33-42: one pass of the loop body on the file found at the path.
\* Every exception of open() and safe_load() is caught and leaves yaml_config alone.
load_one(yc, f) ==
    IF f.state = "ok"
    THEN (IF f.doc.kind = "null" THEN EmptyMapping ELSE f.doc)   \* safe_load(f) or {}
    ELSE yc

\* dict.get(key, default)
DictGet(v, default) == IF v = NoKey THEN default ELSE v

\* line 47: the condition under which the system prompt is taken from the file.
HasSystemPrompt(m) ==
    /\ m.kind = "list"
    /\ m.len > 0
    /\ m.first.role = "system"
    /\ Truthy(m.first.content)

\* lines 44-47 raise AttributeError: yaml_config has no .get (not a mapping),
\* or messages[0] has none.
extract_raises(yc) ==
    \/ yc.kind # "mapping"
    \/ (yc.messages.kind = "list" /\ yc.messages.len > 0 /\ ~yc.messages.first.is_mapping)

\* lines 44-51
extract(cfg, yc) ==
    [host   |-> DictGet(yc.host, cfg.host),
     model  |-> DictGet(yc.model, cfg.model),
     system |-> IF HasSystemPrompt(yc.messages) THEN yc.messages.first.content
                ELSE cfg.system]

-----------------------------------------------------------------------------
(* The environment. *)

EnvHost  == "envhost:11434"
EnvModel == "llama3.2"

Environments == [OLLAMA_HOST : {Unset, "", EnvHost}, MODEL_NAME : {Unset, "", EnvModel}]
NoEnv == [OLLAMA_HOST |-> Unset, MODEL_NAME |-> Unset]

\* os.getenv(name, default)
GetEnv(v, default) == IF v = Unset THEN default ELSE v

\* load_env taking a variable only when its value is not empty
\* (os.getenv(name) or default).
load_env_skip_empty(cfg, e) ==
    [host   |-> IF Truthy(e.OLLAMA_HOST) /\ e.OLLAMA_HOST # Unset THEN e.OLLAMA_HOST ELSE cfg.host,
     model  |-> IF Truthy(e.MODEL_NAME) /\ e.MODEL_NAME # Unset THEN e.MODEL_NAME ELSE cfg.model,
     system |-> cfg.system]

\* lines 53-57
load_env(cfg, e) ==
    [host   |-> GetEnv(e.OLLAMA_HOST, cfg.host),
     model  |-> GetEnv(e.MODEL_NAME, cfg.model),
     system |-> cfg.system]

NoConfig == [host |-> None, model |-> None, system |-> None]   \* config is None

-----------------------------------------------------------------------------
(* Values of the render and query variables outside a render or a query. *)

NoCall == [model |-> None, system |-> None, user |-> None, stream |-> FALSE]
NoResponse == [outcome |-> "none", models |-> <<>>]

RenderIdle ==
    /\ probe = "none"
    /\ ollama_disabled_state = FALSE
    /\ st_error_msg = ""
    /\ requested = None
    /\ response = NoResponse
    /\ model_checked = FALSE
    /\ text = ""
    /\ banner = "none"
    /\ errors = <<>>

QueryIdle ==
    /\ chat_call = NoCall
    /\ received = <<>>
    /\ stream_outcome = "none"
    /\ accumulated_text = ""
    /\ token_count = 0
    /\ displayed = <<>>
    /\ query_result = "none"

-----------------------------------------------------------------------------
(* The script's entry point and load_config, lines 12-65 and 226-231. *)

\* line 227: the call of load_config with a list of candidate paths.
InitConfig ==
    /\ pc = "main"
    /\ \E n \in 0..MaxPaths : filepath_list = [i \in 1..n |-> i]
    /\ yaml_config = NoDoc
    /\ config = NoConfig
    /\ env = NoEnv
    /\ first_parsed = NoDoc
    /\ any_found = FALSE
    /\ file_config = NoConfig
    /\ RenderIdle
    /\ QueryIdle

\* lines 60 and 30: config = set_defaults(); yaml_config = {}
LoadConfigCall ==
    /\ pc = "main"
    /\ config' = set_defaults
    /\ yaml_config' = EmptyMapping
    /\ pc' = "yaml_loop"
    /\ UNCHANGED <<filepath_list, env, first_parsed, any_found, file_config>>
    /\ UNCHANGED <<render_vars, query_vars>>

\* lines 31-42: one pass of the while loop; the loop has no break.
OpenCandidate ==
    /\ pc = "yaml_loop"
    /\ filepath_list # <<>>
    /\ \E f \in FileStates :
        /\ filepath_list' = Tail(filepath_list)          \* pop(0)
        /\ yaml_config' = load_one(yaml_config, f)
        /\ first_parsed' = IF first_parsed = NoDoc /\ f.state = "ok" THEN f.doc
                           ELSE first_parsed
        /\ any_found' = (any_found \/ f.state # "missing")
    /\ UNCHANGED <<pc, config, env, file_config>>
    /\ UNCHANGED <<render_vars, query_vars>>

\* lines 43-51, after the loop; an AttributeError leaves load_config and the script.
ExtractYaml ==
    /\ pc = "yaml_loop"
    /\ filepath_list = <<>>
    /\ IF extract_raises(yaml_config)
       THEN /\ pc' = "raised"
            /\ UNCHANGED <<config, file_config>>
       ELSE /\ pc' = "load_env"
            /\ config' = extract(config, yaml_config)
            /\ file_config' = extract(config, yaml_config)
    /\ UNCHANGED <<filepath_list, yaml_config, env, first_parsed, any_found>>
    /\ UNCHANGED <<render_vars, query_vars>>

\* line 62 (53-57): the environment is read here.
LoadEnv ==
    /\ pc = "load_env"
    /\ \E e \in Environments :
        /\ env' = e
        /\ config' = load_env(config, e)
    /\ pc' = "loaded"
    /\ UNCHANGED <<filepath_list, yaml_config, first_parsed, any_found, file_config>>
    /\ UNCHANGED <<render_vars, query_vars>>

\* lines 228-231: exit if config is None, else front_end(config).
MainCheck ==
    /\ pc = "loaded"
    /\ pc' = IF config = NoConfig THEN "exited" ELSE "front_end"
    /\ UNCHANGED <<config, config_vars, render_vars, query_vars>>

NextConfig == LoadConfigCall \/ OpenCandidate \/ ExtractYaml \/ LoadEnv \/ MainCheck

SpecConfig == InitConfig /\ [][NextConfig]_vars

-----------------------------------------------------------------------------
(* check_ollama_status and check_model_status, lines 82-147. *)

ProbeOutcomes == {"ok", "ResponseError", "Exception"}

\* check_ollama_status with status starting False: a failed probe returns False.
check_ollama_status_starts_false(outcome) ==
    FALSE

\* lines 87-97: status starts True and becomes False only after ollama.ps()
\* returned; both except clauses return status.
check_ollama_status(outcome) ==
    IF outcome = "ok" THEN FALSE ELSE TRUE

CatalogNames == {DefaultModel, FileModel}

\* One entry of response['models']: a dict or an object, with or without
\* a 'model' and a 'name'.
CatalogEntries ==
    { [type |-> "dict",   model |-> n,     name |-> NoKey] : n \in CatalogNames } \cup
    { [type |-> "dict",   model |-> NoKey, name |-> n]     : n \in CatalogNames } \cup
    { [type |-> "object", model |-> n,     name |-> NoKey] : n \in CatalogNames } \cup
    { [type |-> "dict",   model |-> NoKey, name |-> NoKey],
      [type |-> "dict",   model |-> "",    name |-> NoKey],
      [type |-> "object", model |-> NoKey, name |-> DefaultModel] }

Catalogs == UNION { [1..n -> CatalogEntries] : n \in 0..MaxCatalog }

ListResponses ==
    { [outcome |-> o, models |-> <<>>] : o \in {"ResponseError", "Exception", "no_models_key"} }
    \cup { [outcome |-> "ok", models |-> c] : c \in Catalogs }

\* lines 128-133: the name one entry yields, or None.
entry_name(m) ==
    IF m.type = "dict"
    THEN (IF Truthy(m.model) THEN m.model                 \* m.get('model') or
          ELSE IF m.name = NoKey THEN None ELSE m.name)   \* m.get('name')
    ELSE (IF m.model # NoKey THEN m.model ELSE None)      \* hasattr(m, 'model')

\* lines 126-135: the loop that collects the names.
RECURSIVE collect_names(_, _)
collect_names(model_names, model_list) ==
    IF model_list = <<>> THEN model_names
    ELSE LET model_name == entry_name(Head(model_list))
         IN  collect_names(IF Truthy(model_name) THEN Append(model_names, model_name)
                           ELSE model_names,
                           Tail(model_list))

Range(seq) == { seq[i] : i \in DOMAIN seq }

\* choose_model falling back to the last name listed instead of the first.
choose_model_last(model, model_names) ==
    IF model_names # <<>>
    THEN (IF model \notin Range(model_names) THEN model_names[Len(model_names)] ELSE model)
    ELSE None

\* lines 139-147
choose_model(model, model_names) ==
    IF model_names # <<>>
    THEN (IF model \notin Range(model_names) THEN model_names[1] ELSE model)
    ELSE None

\* lines 109-147
check_model_status(model, resp) ==
    IF resp.outcome \in {"ResponseError", "Exception"} THEN None      \* lines 112-117
    ELSE IF resp.outcome = "no_models_key" THEN None                  \* lines 120-122
    ELSE choose_model(model, collect_names(<<>>, resp.models))

-----------------------------------------------------------------------------
(* front_end, lines 191-224: one run of the script body after load_config. *)

NoModelMsg     == "There is no available model on Ollama server"
UnreachableMsg == "The Ollama server is not reachable"
NoTextMsg      == "Please enter some text to check."

UserTexts == {"", "teh text"}

\* lines 203-204
CheckOllamaStatus ==
    /\ pc = "front_end"
    /\ \E outcome \in ProbeOutcomes :
        /\ probe' = outcome
        /\ ollama_disabled_state' = check_ollama_status(outcome)
    /\ st_error_msg' = ""
    /\ pc' = "status_checked"
    /\ UNCHANGED <<config, config_vars, query_vars>>
    /\ UNCHANGED <<requested, response, model_checked, text, banner, errors>>

\* lines 205-209
CheckModel ==
    /\ pc = "status_checked"
    /\ ~ollama_disabled_state
    /\ \E resp \in ListResponses :
        LET model == check_model_status(config.model, resp)
        IN  /\ response' = resp
            /\ config' = [config EXCEPT !.model = model]
            /\ IF model = None \/ model = ""
               THEN /\ ollama_disabled_state' = TRUE
                    /\ st_error_msg' = NoModelMsg
               ELSE UNCHANGED <<ollama_disabled_state, st_error_msg>>
    /\ requested' = config.model
    /\ model_checked' = TRUE
    /\ pc' = "gated"
    /\ UNCHANGED <<config_vars, query_vars, probe, text, banner, errors>>

\* lines 210-211
ServerUnreachable ==
    /\ pc = "status_checked"
    /\ ollama_disabled_state
    /\ st_error_msg' = UnreachableMsg
    /\ pc' = "gated"
    /\ UNCHANGED <<config, config_vars, query_vars>>
    /\ UNCHANGED <<probe, ollama_disabled_state, requested, response, model_checked,
                   text, banner, errors>>

\* lines 213-224.  st.text_area() and st.button() return what the browser
\* reports: the text typed and whether the button was pressed.  Both widgets
\* are drawn with disabled=ollama_disabled_state, and a widget drawn disabled
\* takes no input, so a press is reported only when the flag is False.
RenderControls ==
    /\ pc = "gated"
    /\ banner' = IF ollama_disabled_state THEN "unavailable" ELSE "available"
    /\ \E t \in UserTexts, pressed \in BOOLEAN :
        /\ pressed => ~ollama_disabled_state
        /\ text' = t
        /\ IF pressed
           THEN IF t # ""
                THEN /\ pc' = "query_call"
                     /\ errors' = IF st_error_msg # "" THEN <<st_error_msg>> ELSE <<>>
                ELSE /\ pc' = "rendered"
                     /\ errors' = (IF st_error_msg # "" THEN <<st_error_msg>> ELSE <<>>)
                                  \o <<NoTextMsg>>
           ELSE /\ pc' = "rendered"
                /\ errors' = IF st_error_msg # "" THEN <<st_error_msg>> ELSE <<>>
    /\ UNCHANGED <<config, config_vars, query_vars>>
    /\ UNCHANGED <<probe, ollama_disabled_state, st_error_msg, requested, response,
                   model_checked>>

-----------------------------------------------------------------------------
(* query_ollama, lines 149-189. *)

\* part['message']['content'] of one part of the stream.
PartContents == {None, "", "He", "llo"}

\* consume handing markdown() the part alone instead of the running text.
consume_delta(q, p) ==
    IF Truthy(p) /\ p # ""
    THEN [accumulated_text |-> q.accumulated_text \o p,
          token_count      |-> q.token_count + 1,
          displayed        |-> Append(q.displayed, p)]
    ELSE q

\* lines 175-179: the loop body on one part, on the record of
\* accumulated_text, token_count and the markdown() calls made so far.
consume(q, p) ==
    IF Truthy(p) /\ p # ""
    THEN [accumulated_text |-> q.accumulated_text \o p,
          token_count      |-> q.token_count + 1,
          displayed        |-> Append(q.displayed, q.accumulated_text \o p)]
    ELSE q

\* lines 180-189: what query_ollama hands to its caller once the stream has
\* ended ("exhausted") or raised ("error"): both except clauses only log.
query_return(outcome) ==
    "None"

\* lines 158-168: the messages, the placeholder, the counters and the chat call.
QueryStart ==
    /\ pc = "query_call"
    /\ chat_call' = [model |-> config.model, system |-> config.system,
                     user |-> text, stream |-> TRUE]
    /\ accumulated_text' = ""
    /\ token_count' = 0
    /\ displayed' = <<>>
    /\ received' = <<>>
    /\ stream_outcome' = "open"
    /\ pc' = "streaming"
    /\ UNCHANGED <<config, config_vars, render_vars, query_result>>

\* lines 168-179: the stream yields one more part.
NextPart ==
    /\ pc = "streaming"
    /\ Len(received) < MaxFrags
    /\ \E p \in PartContents :
        LET q == consume([accumulated_text |-> accumulated_text,
                          token_count |-> token_count,
                          displayed |-> displayed], p)
        IN  /\ received' = Append(received, p)
            /\ accumulated_text' = q.accumulated_text
            /\ token_count' = q.token_count
            /\ displayed' = q.displayed
    /\ UNCHANGED <<pc, config, config_vars, render_vars, chat_call, stream_outcome,
                   query_result>>

\* lines 180-185: the stream is exhausted; query_ollama returns.
StreamEnd ==
    /\ pc = "streaming"
    /\ stream_outcome' = "exhausted"
    /\ query_result' = query_return("exhausted")
    /\ pc' = "query_returned"
    /\ UNCHANGED <<config, config_vars, render_vars, chat_call, received,
                   accumulated_text, token_count, displayed>>

\* lines 186-189: the stream raises; the except clause logs and query_ollama returns.
StreamError ==
    /\ pc = "streaming"
    /\ stream_outcome' = "error"
    /\ query_result' = query_return("error")
    /\ pc' = "query_returned"
    /\ UNCHANGED <<config, config_vars, render_vars, chat_call, received,
                   accumulated_text, token_count, displayed>>

\* line 222: back in front_end, which ends the run without another call.
QueryReturn ==
    /\ pc = "query_returned"
    /\ pc' = "rendered"
    /\ UNCHANGED <<config, config_vars, render_vars, query_vars>>

-----------------------------------------------------------------------------
(* One render: front_end called with a configuration load_config returned. *)

\* The configurations load_config can return: those of every document the
\* extraction accepts, under every environment.
FrontEndConfigs ==
    { load_env(extract(set_defaults, yc), e) :
        yc \in { m \in Mappings : ~extract_raises(m) }, e \in Environments }

InitFront ==
    /\ pc = "front_end"
    /\ config \in FrontEndConfigs
    /\ filepath_list = <<>>
    /\ yaml_config = NoDoc
    /\ env = NoEnv
    /\ first_parsed = NoDoc
    /\ any_found = FALSE
    /\ file_config = NoConfig
    /\ RenderIdle
    /\ QueryIdle

NextFront ==
    \/ CheckOllamaStatus \/ CheckModel \/ ServerUnreachable \/ RenderControls
    \/ QueryStart

SpecFront == InitFront /\ [][NextFront]_vars

-----------------------------------------------------------------------------
(* One query: query_ollama called by front_end in a render in which the     *)
(* server answered the probe and listed the model n.                        *)

InitQuery ==
    /\ pc = "query_call"
    /\ \E c \in FrontEndConfigs, n \in CatalogNames :
        /\ config = [c EXCEPT !.model = n]
        /\ requested = c.model
        /\ response = [outcome |-> "ok",
                       models |-> <<[type |-> "dict", model |-> n, name |-> NoKey]>>]
    /\ probe = "ok"
    /\ ollama_disabled_state = FALSE
    /\ st_error_msg = ""
    /\ model_checked = TRUE
    /\ text \in UserTexts \ {""}
    /\ banner = "available"
    /\ errors = <<>>
    /\ filepath_list = <<>>
    /\ yaml_config = NoDoc
    /\ env = NoEnv
    /\ first_parsed = NoDoc
    /\ any_found = FALSE
    /\ file_config = NoConfig
    /\ QueryIdle

NextQuery == QueryStart \/ NextPart \/ StreamEnd \/ StreamError \/ QueryReturn

SpecQuery == InitQuery /\ [][NextQuery]_vars

-----------------------------------------------------------------------------
(* Properties of load_config and of the entry point, under SpecConfig. *)

Returned == pc \in {"loaded", "front_end", "exited"}       \* load_config has returned

\* The document the first successfully parsed candidate supplies (none: no keys).
FirstDoc ==
    IF first_parsed.kind \in {"none", "null"} THEN EmptyMapping ELSE first_parsed

\* C1: the file-sourced host, model and system prompt that load_yaml_file
\* hands back are those of the first candidate that parsed; candidates after
\* it do not change them.
C1_FirstParsedFileWins ==
    (pc \in {"load_env", "loaded", "front_end"} /\ first_parsed.kind # "scalar") =>
        /\ file_config.host = (IF FirstDoc.host = NoKey THEN DefaultHost ELSE FirstDoc.host)
        /\ file_config.model = (IF FirstDoc.model = NoKey THEN DefaultModel ELSE FirstDoc.model)
        /\ file_config.system =
             (IF /\ FirstDoc.messages.kind = "list"
                 /\ FirstDoc.messages.len > 0
                 /\ FirstDoc.messages.first.role = "system"
                 /\ FirstDoc.messages.first.content \notin {"", None, NoKey}
              THEN FirstDoc.messages.first.content ELSE DefaultSystem)

\* C6: a set OLLAMA_HOST / MODEL_NAME is the returned host / model whatever
\* the files and defaults gave; an unset one leaves its field as the files
\* and defaults gave it, whatever the other variable is; the system prompt is
\* the one the files and defaults gave.
C6_EnvOverridesPerField ==
    Returned =>
        /\ env.OLLAMA_HOST # Unset => config.host = env.OLLAMA_HOST
        /\ env.MODEL_NAME # Unset => config.model = env.MODEL_NAME
        /\ env.OLLAMA_HOST = Unset => config.host = file_config.host
        /\ env.MODEL_NAME = Unset => config.model = file_config.model
        /\ config.system = file_config.system

\* C6 witness: no candidate parsed, only MODEL_NAME is set: the model is the
\* variable's value, host and system prompt are the defaults.
C6_Witness ==
    /\ pc = "loaded"
    /\ first_parsed = NoDoc
    /\ env = [OLLAMA_HOST |-> Unset, MODEL_NAME |-> EnvModel]
    /\ config = [host |-> DefaultHost, model |-> EnvModel, system |-> DefaultSystem]

\* C7: the returned host, model and system prompt are all non-empty strings,
\* and a variable set to the empty string does not override its field.
C7_AllFieldsNonEmpty ==
    Returned =>
        /\ config.host \notin {"", None}
        /\ config.model \notin {"", None}
        /\ config.system \notin {"", None}
        /\ env.OLLAMA_HOST = "" => config.host = file_config.host
        /\ env.MODEL_NAME = "" => config.model = file_config.model

\* C8: load_config never raises, and with no candidate parsed and no
\* variable set it returns exactly the defaults.
C8_LoadConfigNeverFails ==
    /\ pc # "raised"
    /\ (Returned /\ first_parsed = NoDoc /\ env = NoEnv) => config = set_defaults

\* C9: front_end is started only when a candidate file was found; when none
\* was found the script exits instead.
C9_NoFileNoFrontEnd ==
    pc = "front_end" => any_found

\* Every configuration front_end is called with is one of FrontEndConfigs.
FrontEndConfigsCover ==
    pc = "front_end" => config \in FrontEndConfigs

-----------------------------------------------------------------------------
(* Properties of one render, under SpecFront. *)

NamedEntry(m) == entry_name(m) \notin {None, ""}

\* The catalog of an answer: the names of the entries that yield one, in the
\* server's order.
CatalogOf(resp) ==
    LET named == SelectSeq(resp.models, NamedEntry)
    IN  [i \in 1..Len(named) |-> entry_name(named[i])]

ListingFailed == response.outcome # "ok"

C5_FailedProbeDisables ==
    /\ pc = "status_checked" => (ollama_disabled_state <=> probe # "ok")
    /\ probe \in {"ResponseError", "Exception"} =>
          (ollama_disabled_state /\ ~model_checked /\ response = NoResponse)

\* C5 witness: a render that ended after a probe that raised.
C5_Witness ==
    /\ pc = "rendered"
    /\ probe = "Exception"
    /\ ollama_disabled_state
    /\ ~model_checked
    /\ errors = <<UnreachableMsg>>

\* C10: the chat request is issued only with the disabled flag False, a
\* non-empty text and a non-empty model that check_model_status returned from
\* the catalog in this render; and whenever the model is None once the checks
\* are done, the flag is True and the message is the "no available model" one.
C10_ChatOnlyWhenUsable ==
    /\ chat_call # NoCall =>
          /\ ~ollama_disabled_state
          /\ chat_call.user # ""
          /\ chat_call.model \notin {None, ""}
          /\ model_checked
          /\ chat_call.model \in Range(CatalogOf(response))
    /\ (pc \in {"gated", "query_call", "streaming", "rendered"} /\ config.model = None) =>
          (ollama_disabled_state /\ st_error_msg = NoModelMsg)

\* The part of C10 about the chat call alone.
ChatGated ==
    chat_call # NoCall =>
        /\ ~ollama_disabled_state
        /\ chat_call.user # ""
        /\ chat_call.model \notin {None, ""}
        /\ model_checked
        /\ chat_call.model \in Range(CatalogOf(response))

-----------------------------------------------------------------------------
(* Properties of one query, under SpecQuery. *)

NonEmptyContent(p) == p \notin {None, ""}

RECURSIVE Concat(_)
Concat(parts) == IF parts = <<>> THEN "" ELSE Head(parts) \o Concat(Tail(parts))

\* C2: markdown() is called once per part with non-empty content, in the
\* order received, the k-th call with the concatenation of the first k
\* non-empty contents; a part with empty content makes no call and the parts
\* after it are still consumed.
C2_CumulativeDisplay ==
    LET shown == SelectSeq(received, NonEmptyContent)
    IN  chat_call # NoCall =>
          /\ Len(displayed) = Len(shown)
          /\ \A k \in 1..Len(shown) : displayed[k] = Concat(SubSeq(shown, 1, k))
          /\ accumulated_text = Concat(shown)
          /\ token_count = Len(shown)

\* C2 witness: "He", an empty part, then "llo": two calls, "He" and "Hello".
C2_Witness ==
    /\ received = <<"He", "", "llo">>
    /\ displayed = <<"He", "Hello">>

\* C3: when the stream raises, the text shown stays the last value shown and
\* the caller of query_ollama gets a failure signal that differs from what it
\* gets when the stream is exhausted.
C3_FailureSignalled ==
    (pc \in {"query_returned", "rendered"} /\ stream_outcome = "error") =>
        /\ (displayed # <<>> => displayed[Len(displayed)] = accumulated_text)
        /\ query_result # query_return("exhausted")

====
